---- MODULE Spec2Model ----
(***************************************************************************)
(* Model of the tab screens of the networking application.                 *)
(*                                                                         *)
(* Messages (src/app/(tabs)/messages.tsx): the conversation aggregation    *)
(* done by fetchConversations, the asynchronous runs of fetchConversations *)
(* started by the mount effect, by pull-to-refresh and by insert           *)
(* notifications, and the screen state they write (Spec, SpecAgg,          *)
(* SpecRaw).                                                               *)
(*                                                                         *)
(* Connections, schedule and discover (connections.tsx, schedule.tsx,      *)
(* index.tsx): the runs of each screen's fetch and the mutations each      *)
(* screen issues, one screen at a time, the screens sharing no local state *)
(* (SpecApp: connections and schedule; SpecRequests: the discover tab and  *)
(* its connection requests in a session that may end; SpecDiscover: the    *)
(* discover tab with its search box and industry chips).                   *)
(*                                                                         *)
(* Notifications (src/context/NotificationContext.tsx): what               *)
(* scheduleMeetingReminder and sendLocalNotification schedule on each      *)
(* platform (SpecNotif).                                                   *)
(*                                                                         *)
(* A string that is searched or lower-cased is the sequence of its         *)
(* characters.                                                             *)
(*                                                                         *)
(* A created_at value is represented by the instant (an integer) that      *)
(* `new Date(created_at)` denotes; the store orders by the same instant.   *)
(* null and undefined are one value per type (NoId, NoProfile, NoMessage). *)
(***************************************************************************)
EXTENDS Integers, Sequences, FiniteSets, TLC

\* ------------------------------------------------------------------ bounds
MaxLen   == 2   \* longest fetched message sequence drawn in SpecAgg / SpecRaw
MaxTime  == 2   \* the drawn created_at instants are 1..MaxTime
MaxStore == 1   \* rows the message table may hold in Spec
MaxRuns  == 2   \* runs of fetchConversations in Spec
MaxFetches == 2 \* runs of a tab's fetch in flight at once
MaxOps   == 1   \* mutations of a tab in flight at once
MaxConns == 3   \* rows the connection table may hold in SpecRequests
MaxQuery == 2   \* characters the search box may hold in SpecDiscover
MaxScheduled == 2 \* notifications scheduled in SpecNotif

\* ------------------------------------------------------------------ values
Me     == "me"
Others == {"a", "b"}
NoId   == "none"

Times  == 1..MaxTime

Profile(u) == [id |-> u]
NoProfile  == [id |-> NoId]

NoMessage ==
  [id |-> 0, sender_id |-> NoId, receiver_id |-> NoId, read |-> TRUE,
   created_at |-> 0, sender_profile |-> NoProfile]

\* new Date(s).getTime()
DateTime(created_at) == created_at

\* ------------------------------------------------------------------- state
VARIABLES
  user,           \* useAuth().user: the signed-in user's id
  store,          \* the message table, rows in insertion order
  profiles,       \* ids that have a row in the profile table
  clock,          \* the store's current instant (created_at of the next row)
  mounted,        \* the mount effect has run
  subscribed,     \* the insert subscription is active
  notifs,         \* insert notifications delivered but not yet handled
  runs,           \* the runs of fetchConversations, in start order
  conversations,  \* useState<Conversation[]>
  loading,        \* useState loading
  refreshing,     \* useState refreshing
  lastDone,       \* id of the run that completed last (0: none has)
  screen,         \* the tab the model follows
  connTable,      \* the connection table, rows in insertion order
  meetTable,      \* the meeting table, rows in scheduled_for order
  fetches,        \* the runs of the tab's fetch that are in flight
  lastFetch,      \* the run of the tab's fetch that ended last
  ops,            \* the mutations of the tab that are in flight
  lastOp,         \* the mutation handler that returned last
  connections,    \* connections.tsx useState<Connection[]>
  pendingRequests,\* connections.tsx useState<Connection[]>
  sentRequests,   \* connections.tsx useState<Connection[]>
  meetings,       \* schedule.tsx useState<Meeting[]>
  selectedDate,   \* schedule.tsx useState(new Date())
  profileList,    \* index.tsx useState<UserProfile[]> profiles (their ids)
  filteredProfiles, \* index.tsx useState<UserProfile[]> (their ids)
  searchQuery,    \* index.tsx useState('')
  selectedIndustry, \* index.tsx useState<string>('all')
  platform,       \* react-native Platform.OS
  scheduled,      \* the requests passed to scheduleNotificationAsync, in order
  lastCall        \* the call of the notification context made last

\* the notification context: the platform, and what it has scheduled
notifVars == <<platform, scheduled, lastCall>>

\* the state of the connections, schedule and discover tabs and their tables,
\* and of the notification context
appVars == <<screen, connTable, meetTable, fetches, lastFetch, ops, lastOp,
             connections, pendingRequests, sentRequests, meetings,
             selectedDate, profileList, filteredProfiles, searchQuery,
             selectedIndustry, notifVars>>

\* what the search box and the industry chips of the discover tab set, and
\* the list the filter effect derives from them
filterVars == <<filteredProfiles, searchQuery, selectedIndustry>>

\* the state only the messages tab uses
msgVars == <<store, clock, subscribed, notifs, runs, conversations, lastDone>>

vars == <<user, store, profiles, clock, mounted, subscribed, notifs, runs,
          conversations, loading, refreshing, lastDone, appVars>>

\* ------------------------------------------------------------ aggregation
\* faulty variant of OtherUserId: the conversation is keyed by the sender
OtherUserIdOfSender(message, uid) == message.sender_id

\* the counterparty of a message, as line 73 computes it
OtherUserId(message, uid) ==
  IF message.sender_id = uid THEN message.receiver_id ELSE message.sender_id

\* conversationMap is a Map: a sequence of entries in insertion order
MapHas(map, key) == \E i \in DOMAIN map : map[i].otherUserId = key

\* faulty variant of MapIndex: the entry set first is taken, whatever its key
MapIndexFirst(map, key) == 1

\* conversationMap.get(otherUserId)
MapIndex(map, key) == CHOOSE i \in DOMAIN map : map[i].otherUserId = key

\* faulty variant of NewConversation: the embedded profile is taken whoever sent
NewConversationAnySender(message, uid) ==
  [otherUserId      |-> OtherUserId(message, uid),
   otherUserProfile |-> message.sender_profile,
   lastMessage      |-> message,
   unreadCount      |-> 0]

\* the entry a first message of a counterparty creates
NewConversation(message, uid) ==
  [otherUserId      |-> OtherUserId(message, uid),
   otherUserProfile |-> IF message.sender_id # uid
                          THEN message.sender_profile ELSE NoProfile,
   lastMessage      |-> message,
   unreadCount      |-> 0]

\* faulty variant of IsMoreRecent: the first message of a conversation is kept
IsMoreRecentNever(message, conversation) ==
  conversation.lastMessage = NoMessage

\* faulty variant of IsMoreRecent: a message as recent as the last replaces it
IsMoreRecentOrEqual(message, conversation) ==
  \/ conversation.lastMessage = NoMessage
  \/ DateTime(message.created_at) >= DateTime(conversation.lastMessage.created_at)

\* "Update last message if this is more recent"
IsMoreRecent(message, conversation) ==
  \/ conversation.lastMessage = NoMessage
  \/ DateTime(message.created_at) > DateTime(conversation.lastMessage.created_at)

\* faulty variant of CountsAsUnread: the receiver is not looked at
CountsAsUnreadAnyReceiver(message, uid) == ~message.read

\* "Count unread messages (received and not read)"
CountsAsUnread(message, uid) ==
  message.receiver_id = uid /\ ~message.read

\* one iteration of messages.forEach
GroupStep(map, message, uid) ==
  LET key  == OtherUserId(message, uid)
      map1 == IF MapHas(map, key) THEN map
              ELSE Append(map, NewConversation(message, uid))
      i    == MapIndex(map1, key)
      c0   == map1[i]
      c1   == IF IsMoreRecent(message, c0)
                THEN [c0 EXCEPT !.lastMessage = message] ELSE c0
      c2   == IF CountsAsUnread(message, uid)
                THEN [c1 EXCEPT !.unreadCount = @ + 1] ELSE c1
  IN  [map1 EXCEPT ![i] = c2]

RECURSIVE GroupFrom(_, _, _, _)
GroupFrom(map, messages, k, uid) ==
  IF k > Len(messages) THEN map
  ELSE GroupFrom(GroupStep(map, messages[k], uid), messages, k + 1, uid)

\* faulty variant of EmptyMap: the map is seeded with the conversations state
EmptyMapFromState == conversations

\* new Map<string, Conversation>()
EmptyMap == << >>

\* messages?.forEach(...): a null data set is skipped
GroupMessages(resp, uid) ==
  IF resp.kind = "null" THEN EmptyMap
  ELSE GroupFrom(EmptyMap, resp.data, 1, uid)

\* faulty variant of WithoutProfiles: the filter is dropped
WithoutProfilesUnfiltered(map) == map

\* conversations without a profile, in map order, and their ids
WithoutProfiles(map) ==
  SelectSeq(map, LAMBDA conv : conv.otherUserProfile = NoProfile)

UserIdsOf(convs) == [i \in DOMAIN convs |-> convs[i].otherUserId]

SeqRange(s) == {s[i] : i \in DOMAIN s}

\* faulty variant of AssignProfiles: a conversation whose profile the lookup
\* did not return is left out
AssignProfilesFoundOnly(map, look) ==
  SelectSeq(map, LAMBDA conv :
    \/ conv.otherUserProfile # NoProfile
    \/ look.kind = "data" /\ conv.otherUserId \in look.found)

\* profiles?.find(p => p.id === conv.otherUserId) for every conversation
\* that had no profile; look = [kind, found]
AssignProfiles(map, look) ==
  [i \in DOMAIN map |->
     IF map[i].otherUserProfile # NoProfile THEN map[i]
     ELSE [map[i] EXCEPT !.otherUserProfile =
             IF look.kind = "data" /\ map[i].otherUserId \in look.found
               THEN Profile(map[i].otherUserId) ELSE NoProfile]]

\* the sort comparator
Compare(a, b) ==
  IF a.lastMessage = NoMessage \/ b.lastMessage = NoMessage THEN 0
  ELSE DateTime(b.lastMessage.created_at) - DateTime(a.lastMessage.created_at)

\* Array.prototype.sort is stable: insert after every element not after x
InsertSorted(sorted, x) ==
  LET after == {i \in DOMAIN sorted : Compare(sorted[i], x) > 0}
      pos   == IF after = {} THEN Len(sorted) + 1
               ELSE CHOOSE i \in after : \A j \in after : i <= j
  IN  SubSeq(sorted, 1, pos - 1) \o <<x>> \o SubSeq(sorted, pos, Len(sorted))

RECURSIVE SortFrom(_, _, _)
SortFrom(sorted, list, k) ==
  IF k > Len(list) THEN sorted
  ELSE SortFrom(InsertSorted(sorted, list[k]), list, k + 1)

\* faulty variant of SortConversations: the map order is stored unsorted
SortConversationsSkipped(list) == list

\* Array.from(conversationMap.values()).sort(...)
SortConversations(list) == SortFrom(<< >>, list, 1)

\* ---------------------------------------------------------------- the runs
RunIds == 1..MaxRuns

NoResp == [kind |-> "none", data |-> << >>]
NoLook == [kind |-> "none", found |-> {}]

IdleRun ==
  [pc      |-> "idle",   \* idle, query, awaitMessages, awaitProfiles, done
   uid     |-> NoId,     \* the user the run was started for
   refresh |-> FALSE,    \* started by onRefresh
   resp    |-> NoResp,   \* what the messages select resolved to
   held    |-> << >>,    \* the conversations state when the grouping ran
   map     |-> << >>,    \* conversationMap after the grouping
   lookups |-> << >>,    \* the userIds of every profile select issued
   look    |-> NoLook,   \* what the profile select resolved to
   result  |-> << >>,    \* the conversationList given to setConversations
   outcome |-> "none",   \* none, ok (stored), failed (caught)
   logged  |-> FALSE,    \* console.error was called
   alerted |-> FALSE]    \* a failure notice was shown

\* ------------------------------------------------------------ the store
\* sender_profile:profiles!messages_sender_id_fkey(*)
Embed(row, profs) ==
  [id |-> row.id, sender_id |-> row.sender_id, receiver_id |-> row.receiver_id,
   read |-> row.read, created_at |-> row.created_at,
   sender_profile |-> IF row.sender_id \in profs
                        THEN Profile(row.sender_id) ELSE NoProfile]

\* .or(`sender_id.eq.${user.id},receiver_id.eq.${user.id}`)
Touches(row, uid) == row.sender_id = uid \/ row.receiver_id = uid

IndexOrders(n) ==
  {f \in [1..n -> 1..n] : \A i, j \in 1..n : f[i] = f[j] => i = j}

\* .order('created_at', { ascending: false })
InQueryOrder(rows) ==
  \A i \in 1..(Len(rows) - 1) : rows[i].created_at >= rows[i + 1].created_at

\* every answer the store may give to the messages select: the matching rows
\* in descending created_at (rows of one instant in any order)
SelectMessages(table, profs, uid) ==
  LET rows == SelectSeq(table, LAMBDA row : Touches(row, uid))
      n    == Len(rows)
      all  == {[i \in 1..n |-> Embed(rows[f[i]], profs)] : f \in IndexOrders(n)}
  IN  {s \in all : InQueryOrder(s)}

\* the { data, error } the messages select resolves to: the rows, or an error
MessageResponses(table, profs, uid) ==
  {[kind |-> "error", data |-> << >>]}
    \cup {[kind |-> "data", data |-> s] : s \in SelectMessages(table, profs, uid)}

\* the profile select .in('id', userIds): rows found, an error result whose
\* data is null, or a rejected promise
LookupOutcomes(userIds, profs) ==
  {[kind |-> "data", found |-> SeqRange(userIds) \cap profs],
   [kind |-> "error", found |-> {}],
   [kind |-> "reject", found |-> {}]}

\* ------------------------------------------------------- fetchConversations
IdleRuns == {r \in RunIds : runs[r].pc = "idle"}
NextRun  == CHOOSE r \in IdleRuns : \A q \in IdleRuns : r <= q

\* `if (!user) return; setLoading(true);` and the messages select is issued
StartRun(refresh) ==
  IF user = NoId
    THEN UNCHANGED <<runs, loading>>
    ELSE /\ runs' = [runs EXCEPT ![NextRun] =
                       [IdleRun EXCEPT !.pc = "query", !.uid = user,
                                       !.refresh = refresh]]
         /\ loading' = TRUE

\* the run ends: `finally { setLoading(false) }`, then onRefresh's
\* setRefreshing(false) when the run was awaited by onRefresh
EndRun(r, run) ==
  /\ runs' = [runs EXCEPT ![r] = run]
  /\ loading' = FALSE
  /\ refreshing' = IF run.refresh THEN FALSE ELSE refreshing
  /\ lastDone' = r

\* catch: console.error and nothing else; the conversations state is not
\* written
FailRun(r, run) ==
  /\ EndRun(r, [run EXCEPT !.pc = "done", !.outcome = "failed",
                           !.logged = TRUE])
  /\ UNCHANGED conversations

\* faulty variant of StoreRun: a generation check keeps a run from writing once a
\* newer run has started
StoreRunIfNewest(r, run, map) ==
  LET conversationList == SortFrom(<< >>, map, 1)
  IN  /\ conversations' =
           IF \E q \in RunIds : q > r /\ runs[q].pc # "idle"
             THEN conversations ELSE conversationList
      /\ EndRun(r, [run EXCEPT !.pc = "done", !.outcome = "ok",
                               !.result = conversationList])

\* sort, setConversations(conversationList)
StoreRun(r, run, map) ==
  LET conversationList == SortConversations(map)
  IN  /\ conversations' = conversationList
      /\ EndRun(r, [run EXCEPT !.pc = "done", !.outcome = "ok",
                               !.result = conversationList])

\* ----------------------------------------------------------------- actions
\* useEffect(() => { fetchConversations(); subscribe }, [user])
MountEffect ==
  /\ ~mounted
  /\ mounted' = TRUE
  /\ StartRun(FALSE)
  /\ subscribed' = (user # NoId)
  /\ UNCHANGED <<user, store, profiles, clock, notifs, conversations,
                 refreshing, lastDone>>
  /\ UNCHANGED appVars

\* the signed-in user becomes null: the effect's cleanup runs
\* subscription.unsubscribe(), which discards what the channel has not yet
\* handed to the callback; then the effect runs again, where
\* fetchConversations returns at once and nothing is subscribed
SignOut ==
  /\ mounted
  /\ user # NoId
  /\ user' = NoId
  /\ subscribed' = FALSE
  /\ notifs' = 0
  /\ UNCHANGED <<store, profiles, clock, mounted, runs, conversations,
                 loading, refreshing, lastDone>>
  /\ UNCHANGED appVars

\* onRefresh: setRefreshing(true); await fetchConversations()
Refresh ==
  /\ mounted
  /\ IdleRuns # {}
  /\ refreshing' = (user # NoId)
  /\ StartRun(TRUE)
  /\ UNCHANGED <<user, store, profiles, clock, mounted, subscribed, notifs,
                 conversations, lastDone>>
  /\ UNCHANGED appVars

\* a row is inserted into the message table (by either party) at the store's
\* next instant; the channel delivers one notification per insert whose
\* receiver is the subscriber
Insert ==
  /\ Len(store) < MaxStore
  /\ \E other \in Others, incoming \in BOOLEAN :
       LET row == [id |-> Len(store) + 1,
                   sender_id |-> IF incoming THEN other ELSE Me,
                   receiver_id |-> IF incoming THEN Me ELSE other,
                   read |-> FALSE, created_at |-> clock]
       IN  /\ store' = Append(store, row)
           /\ clock' = clock + 1
           /\ notifs' = IF subscribed /\ incoming THEN notifs + 1 ELSE notifs
  /\ UNCHANGED <<user, profiles, mounted, subscribed, runs, conversations,
                 loading, refreshing, lastDone>>
  /\ UNCHANGED appVars

\* faulty variant of Notify: a notification that arrives while a run is in
\* flight is folded into that run
NotifyCoalesced ==
  /\ subscribed
  /\ notifs > 0
  /\ IdleRuns # {}
  /\ notifs' = notifs - 1
  /\ IF \E r \in RunIds : runs[r].pc \notin {"idle", "done"}
       THEN UNCHANGED <<runs, loading>>
       ELSE StartRun(FALSE)
  /\ UNCHANGED <<user, store, profiles, clock, mounted, subscribed,
                 conversations, refreshing, lastDone>>
  /\ UNCHANGED appVars

\* the subscription callback: (payload) => { fetchConversations(); }
Notify ==
  /\ subscribed
  /\ notifs > 0
  /\ IdleRuns # {}
  /\ notifs' = notifs - 1
  /\ StartRun(FALSE)
  /\ UNCHANGED <<user, store, profiles, clock, mounted, subscribed,
                 conversations, refreshing, lastDone>>
  /\ UNCHANGED appVars

\* the store answers the messages select of run r from its current rows
QueryExec(r) ==
  /\ runs[r].pc = "query"
  /\ \E resp \in MessageResponses(store, profiles, runs[r].uid) :
       runs' = [runs EXCEPT ![r].pc = "awaitMessages", ![r].resp = resp]
  /\ UNCHANGED <<user, store, profiles, clock, mounted, subscribed, notifs,
                 conversations, loading, refreshing, lastDone>>
  /\ UNCHANGED appVars

\* run r resumes after the first await: throw on error, group, then either
\* issue the profile select or sort and store
MessagesResolve(r) ==
  /\ runs[r].pc = "awaitMessages"
  /\ LET run     == [runs[r] EXCEPT !.held = conversations]
         map     == GroupMessages(run.resp, run.uid)
         userIds == UserIdsOf(WithoutProfiles(map))
     IN  IF run.resp.kind = "error"
           THEN FailRun(r, run)
           ELSE IF Len(userIds) > 0
             THEN /\ runs' = [runs EXCEPT ![r] =
                                [run EXCEPT !.pc = "awaitProfiles", !.map = map,
                                            !.lookups = Append(@, userIds)]]
                  /\ UNCHANGED <<conversations, loading, refreshing, lastDone>>
             ELSE StoreRun(r, [run EXCEPT !.map = map], map)
  /\ UNCHANGED <<user, store, profiles, clock, mounted, subscribed, notifs>>
  /\ UNCHANGED appVars

\* run r resumes after the profile select: `const { data: profiles } = await`
LookupResolve(r) ==
  /\ runs[r].pc = "awaitProfiles"
  /\ \E look \in LookupOutcomes(runs[r].lookups[Len(runs[r].lookups)], profiles) :
       LET run == [runs[r] EXCEPT !.look = look]
       IN  IF look.kind = "reject"
             THEN FailRun(r, run)
             ELSE StoreRun(r, run, AssignProfiles(run.map, look))
  /\ UNCHANGED <<user, store, profiles, clock, mounted, subscribed, notifs>>
  /\ UNCHANGED appVars

\* ================================================= the other three tabs
Tabs  == {"connections", "schedule", "discover"}
Days  == {"today", "tomorrow"}
NoDay == "none"

\* Connection of types/database.ts, without its timestamps and embeds
Connection(id, requester_id, requested_id, status) ==
  [id |-> id, requester_id |-> requester_id, requested_id |-> requested_id,
   status |-> status]

\* Meeting of types/database.ts; scheduled_for is kept as its day
Meeting(id, organizer_id, attendee_id, scheduled_for, status) ==
  [id |-> id, organizer_id |-> organizer_id, attendee_id |-> attendee_id,
   scheduled_for |-> scheduled_for, status |-> status]

\* the rows other users' requests and the user's own earlier requests left
InitialConnections ==
  << Connection(1, "a", Me, "pending"), Connection(2, Me, "b", "pending") >>

InitialMeetings ==
  << Meeting(1, "a", Me, "today", "pending") >>

FetchIds == 1..MaxFetches
OpIds    == 1..MaxOps

IdleFetch ==
  [pc       |-> "idle",  \* idle, accepted, pending, sent, meetings, profiles, done
   uid      |-> NoId,    \* the user of the closure the run was called from
   refresh  |-> FALSE,   \* awaited by onRefresh
   date     |-> NoDay,   \* selectedDate of the closure (fetchMeetings)
   accepted |-> << >>,   \* acceptedData, once the first select resolved
   pending  |-> << >>,   \* pendingData, once the second select resolved
   outcome  |-> "none",  \* none, ok (stored), failed (caught)
   logged   |-> FALSE,   \* console.error was called
   alerted  |-> FALSE]   \* Alert.alert('Error', ...) was called

IdleOp ==
  [pc      |-> "idle",   \* idle, await, done
   kind    |-> "none",   \* respond, meeting, request
   uid     |-> NoId,     \* the user of the closure the handler was called from
   date    |-> NoDay,    \* selectedDate of that closure (updateMeetingStatus)
   id      |-> 0,        \* the row id given to .eq('id', ...)
   target  |-> NoId,     \* targetUserId of sendConnectionRequest
   row     |-> Connection(0, NoId, NoId, "none"),  \* the row given to .insert
   status  |-> "none",   \* the status given to .update
   issued  |-> 0,        \* requests sent to the store
   outcome |-> "none",   \* none, ok, failed, skipped (returned at once)
   notice  |-> "none",   \* none, success, error: the Alert shown
   logged  |-> FALSE,    \* console.error was called
   refetch |-> FALSE]    \* the handler called the tab's fetch

\* the chip that selects no industry, and the chips of line 27
All == <<"a", "l", "l">>
industries ==
  <<All,
    <<"T", "e", "c", "h", "n", "o", "l", "o", "g", "y">>,
    <<"F", "i", "n", "a", "n", "c", "e">>,
    <<"H", "e", "a", "l", "t", "h", "c", "a", "r", "e">>,
    <<"M", "a", "r", "k", "e", "t", "i", "n", "g">>,
    <<"D", "e", "s", "i", "g", "n">>,
    <<"C", "o", "n", "s", "u", "l", "t", "i", "n", "g">>,
    <<"E", "d", "u", "c", "a", "t", "i", "o", "n">>,
    <<"O", "t", "h", "e", "r">>>>

\* the tabs before any of them has mounted
TabsAtRest ==
  /\ connTable = InitialConnections
  /\ meetTable = InitialMeetings
  /\ fetches = [f \in FetchIds |-> IdleFetch]
  /\ lastFetch = IdleFetch
  /\ ops = [o \in OpIds |-> IdleOp]
  /\ lastOp = IdleOp
  /\ connections = << >>
  /\ pendingRequests = << >>
  /\ sentRequests = << >>
  /\ meetings = << >>
  /\ selectedDate = "today"
  /\ profileList = << >>
  /\ filteredProfiles = << >>
  /\ searchQuery = << >>
  /\ selectedIndustry = All

\* Platform.OS
Platforms == {"ios", "android", "web"}

\* no call made yet, and a trigger of null
NoCall == [fn |-> "none", title |-> "", body |-> "", date |-> 0]
NullTrigger == [kind |-> "null", date |-> 0]

\* the notification context on a platform before any call
ProviderAtRest(os) ==
  /\ platform = os
  /\ scheduled = << >>
  /\ lastCall = NoCall

\* ---------------------------------------------------------- specifications
\* the profile table: every user has a row, or the row of "b" is missing
ProfileTables == {{Me} \cup Others, {Me} \cup (Others \ {"b"})}

\* the screen after construction: useState initial values, effect not yet run
Init ==
  /\ user = Me
  /\ store = << >>
  /\ profiles \in ProfileTables
  /\ clock = 1
  /\ mounted = FALSE
  /\ subscribed = FALSE
  /\ notifs = 0
  /\ runs = [r \in RunIds |-> IdleRun]
  /\ conversations = << >>
  /\ loading = FALSE
  /\ refreshing = FALSE
  /\ lastDone = 0
  /\ screen = "messages"
  /\ TabsAtRest
  /\ ProviderAtRest("ios")

Next ==
  \/ MountEffect
  \/ Refresh
  \/ Insert
  \/ Notify
  \/ \E r \in RunIds : QueryExec(r)
  \/ \E r \in RunIds : MessagesResolve(r)
  \/ \E r \in RunIds : LookupResolve(r)

Spec == Init /\ [][Next]_vars

\* the screen of a session that may end while the screen is mounted
InitSession == Init /\ profiles = {Me} \cup Others

NextSession == Next \/ SignOut

SpecSession == InitSession /\ [][NextSession]_vars

\* ------------------------------------------------- the aggregation alone
\* the rows a fetched sequence is drawn from: every message between the user
\* and a counterparty
DrawnRows ==
  [sender_id : {Me}, receiver_id : Others, read : BOOLEAN, created_at : Times]
    \cup [sender_id : Others, receiver_id : {Me}, read : BOOLEAN, created_at : Times]

\* one run of fetchConversations whose messages select has not yet resolved;
\* its answer is either null or a sequence that Draw extends
InitDrawn ==
  /\ user = Me
  /\ store = << >>
  /\ profiles \in ProfileTables
  /\ clock = 1
  /\ mounted = TRUE
  /\ subscribed = TRUE
  /\ notifs = 0
  /\ \E kind \in {"data", "null"} :
       runs = [r \in RunIds |->
                 IF r = 1 THEN [IdleRun EXCEPT !.pc = "awaitMessages", !.uid = Me,
                                               !.resp = [kind |-> kind, data |-> << >>]]
                 ELSE IdleRun]
  /\ conversations = << >>
  /\ loading = TRUE
  /\ refreshing = FALSE
  /\ lastDone = 0
  /\ screen = "messages"
  /\ TabsAtRest
  /\ ProviderAtRest("ios")

\* the answer in flight gets one more row, in any order, of up to MaxLen rows
Draw(rowset) ==
  /\ runs[1].pc = "awaitMessages"
  /\ runs[1].resp.kind = "data"
  /\ Len(runs[1].resp.data) < MaxLen
  /\ \E row \in rowset :
       LET message == Embed([id |-> Len(runs[1].resp.data) + 1,
                             sender_id |-> row.sender_id,
                             receiver_id |-> row.receiver_id,
                             read |-> row.read,
                             created_at |-> row.created_at], profiles)
       IN  runs' = [runs EXCEPT ![1].resp.data = Append(@, message)]
  /\ UNCHANGED <<user, store, profiles, clock, mounted, subscribed, notifs,
                 conversations, loading, refreshing, lastDone>>
  /\ UNCHANGED appVars

DrawMessage == Draw(DrawnRows)

NextAgg ==
  \/ DrawMessage
  \/ \E r \in RunIds : MessagesResolve(r)
  \/ \E r \in RunIds : LookupResolve(r)

SpecAgg == InitDrawn /\ [][NextAgg]_vars

\* a row that is missing both its sender id and its receiver id
MalformedRows ==
  [sender_id : {NoId}, receiver_id : {NoId}, read : BOOLEAN, created_at : Times]

DrawRaw == Draw(DrawnRows \cup MalformedRows)

NextRaw ==
  \/ DrawRaw
  \/ \E r \in RunIds : MessagesResolve(r)
  \/ \E r \in RunIds : LookupResolve(r)

\* the aggregation over fetched rows that may be malformed
SpecRaw == InitDrawn /\ [][NextRaw]_vars

\* ============================================== the tabs, one at a time
IdleFetches == {f \in FetchIds : fetches[f].pc = "idle"}
NextFetch   == CHOOSE f \in IdleFetches : \A g \in IdleFetches : f <= g
IdleOps     == {o \in OpIds : ops[o].pc = "idle"}
NextOp      == CHOOSE o \in IdleOps : \A q \in IdleOps : o <= q

\* what is kept of a handler call once it returned: its kind, to which the
\* outcome, the notice and the calls it made are added
Returned(op) == [IdleOp EXCEPT !.pc = "done", !.kind = op.kind]

\* a tab's fetch is called from a closure over uid and date:
\* `if (!user) return; setLoading(true);` and the first select is issued
StartFetch(uid, refresh, first, date) ==
  IF uid = NoId
    THEN UNCHANGED <<fetches, loading>>
    ELSE /\ fetches' = [fetches EXCEPT ![NextFetch] =
                          [IdleFetch EXCEPT !.pc = first, !.uid = uid,
                                            !.refresh = refresh,
                                            !.date = date]]
         /\ loading' = TRUE

\* `finally { setLoading(false) }`, then onRefresh's setRefreshing(false)
EndFetch(f, run) ==
  /\ fetches' = [fetches EXCEPT ![f] = IdleFetch]
  /\ lastFetch' = [IdleFetch EXCEPT !.pc = run.pc, !.outcome = run.outcome,
                                    !.logged = run.logged,
                                    !.alerted = run.alerted]
  /\ loading' = FALSE
  /\ refreshing' = IF run.refresh THEN FALSE ELSE refreshing

\* ------------------------------------------------------- connections.tsx
\* .or(requester_id.eq, requested_id.eq).eq('status', 'accepted')
SelectAccepted(table, uid) ==
  SelectSeq(table, LAMBDA c : /\ (c.requester_id = uid \/ c.requested_id = uid)
                              /\ c.status = "accepted")

\* faulty variant of SelectPending: pending requests of either side
SelectPendingEitherSide(table, uid) ==
  SelectSeq(table, LAMBDA c : /\ (c.requester_id = uid \/ c.requested_id = uid)
                              /\ c.status = "pending")

\* .eq('requested_id', user.id).eq('status', 'pending')
SelectPending(table, uid) ==
  SelectSeq(table, LAMBDA c : c.requested_id = uid /\ c.status = "pending")

\* .eq('requester_id', user.id).eq('status', 'pending')
SelectSent(table, uid) ==
  SelectSeq(table, LAMBDA c : c.requester_id = uid /\ c.status = "pending")

\* catch of fetchConnections: console.error, Alert.alert; no list is set
FailConnections(f, run) ==
  /\ EndFetch(f, [run EXCEPT !.pc = "done", !.outcome = "failed",
                             !.logged = TRUE, !.alerted = TRUE])
  /\ UNCHANGED <<connections, pendingRequests, sentRequests>>

\* useEffect(() => { fetchConnections(); }, [])
MountConnections ==
  /\ screen = "connections"
  /\ ~mounted
  /\ mounted' = TRUE
  /\ StartFetch(user, FALSE, "accepted", NoDay)
  /\ UNCHANGED <<user, profiles, refreshing, msgVars, notifVars>>
  /\ UNCHANGED <<screen, connTable, meetTable, lastFetch, ops, lastOp,
                 connections, pendingRequests, sentRequests, meetings,
                 selectedDate, profileList, filterVars>>

\* onRefresh: setRefreshing(true); await fetchConnections()
RefreshConnections ==
  /\ screen = "connections"
  /\ mounted
  /\ IdleFetches # {}
  /\ refreshing' = (user # NoId)
  /\ StartFetch(user, TRUE, "accepted", NoDay)
  /\ UNCHANGED <<user, profiles, mounted, msgVars, notifVars>>
  /\ UNCHANGED <<screen, connTable, meetTable, lastFetch, ops, lastOp,
                 connections, pendingRequests, sentRequests, meetings,
                 selectedDate, profileList, filterVars>>

\* the select run f awaits resolves, with an error or with the rows the store
\* holds now; the run throws, issues its next select, or sets the three lists
ConnectionsAnswer(f) ==
  /\ fetches[f].pc \in {"accepted", "pending", "sent"}
  /\ LET run == fetches[f]
     IN  \E ok \in BOOLEAN :
           IF ~ok
             THEN FailConnections(f, run)
             ELSE IF run.pc = "accepted"
               THEN /\ fetches' = [fetches EXCEPT ![f] =
                         [run EXCEPT !.pc = "pending",
                                     !.accepted = SelectAccepted(connTable, run.uid)]]
                    /\ UNCHANGED <<connections, pendingRequests, sentRequests,
                                   loading, refreshing, lastFetch>>
               ELSE IF run.pc = "pending"
                 THEN /\ fetches' = [fetches EXCEPT ![f] =
                           [run EXCEPT !.pc = "sent",
                                       !.pending = SelectPending(connTable, run.uid)]]
                      /\ UNCHANGED <<connections, pendingRequests, sentRequests,
                                     loading, refreshing, lastFetch>>
                 ELSE /\ connections' = run.accepted
                      /\ pendingRequests' = run.pending
                      /\ sentRequests' = SelectSent(connTable, run.uid)
                      /\ EndFetch(f, [run EXCEPT !.pc = "done", !.outcome = "ok"])
  /\ UNCHANGED <<user, profiles, mounted, msgVars, notifVars>>
  /\ UNCHANGED <<screen, connTable, meetTable, ops, lastOp, meetings,
                 selectedDate, profileList, filterVars>>

\* renderConnectionCard: the card shows the other party's embedded profile
\* and is not rendered without it
Rendered(connection) ==
  LET isRequester == connection.requester_id = user
      profile == IF isRequester THEN connection.requested_id
                                ELSE connection.requester_id
  IN  profile \in profiles

\* the statuses the Accept and Decline buttons pass
Responses == {"accepted", "rejected"}

\* .update({ status }).eq('id', connectionId)
UpdateConnection(table, id, status) ==
  [i \in DOMAIN table |->
     IF table[i].id = id THEN [table[i] EXCEPT !.status = status] ELSE table[i]]

\* faulty variant of RespondFailed: the lists are loaded again after a
\* rejected update
RespondFailedRefetch(o, op) ==
  /\ ops' = [ops EXCEPT ![o] = IdleOp]
  /\ lastOp' = [Returned(op) EXCEPT !.outcome = "failed", !.logged = TRUE,
                                    !.notice = "error", !.refetch = TRUE]
  /\ StartFetch(op.uid, FALSE, "accepted", NoDay)
  /\ UNCHANGED connTable

\* catch of handleConnectionResponse: console.error, Alert.alert('Error')
RespondFailed(o, op) ==
  /\ ops' = [ops EXCEPT ![o] = IdleOp]
  /\ lastOp' = [Returned(op) EXCEPT !.outcome = "failed", !.logged = TRUE,
                                    !.notice = "error"]
  /\ UNCHANGED <<connTable, fetches, loading>>

\* Accept or Decline is pressed on a card of the pending tab:
\* handleConnectionResponse(connection.id, status) issues its update
RespondPress ==
  /\ screen = "connections"
  /\ mounted
  /\ IdleOps # {}
  /\ \E i \in DOMAIN pendingRequests, status \in Responses :
       /\ Rendered(pendingRequests[i])
       /\ ops' = [ops EXCEPT ![NextOp] =
                    [IdleOp EXCEPT !.pc = "await", !.kind = "respond",
                                   !.uid = user, !.id = pendingRequests[i].id,
                                   !.status = status, !.issued = 1]]
  /\ UNCHANGED <<user, profiles, mounted, loading, refreshing, msgVars, notifVars>>
  /\ UNCHANGED <<screen, connTable, meetTable, fetches, lastFetch, lastOp,
                 connections, pendingRequests, sentRequests, meetings,
                 selectedDate, profileList, filterVars>>

\* the update of handleConnectionResponse resolves: the store rejected it, or
\* applied it to the row of that id; then Alert and fetchConnections()
RespondAnswer(o) ==
  /\ ops[o].pc = "await"
  /\ ops[o].kind = "respond"
  /\ IdleFetches # {}
  /\ LET op == ops[o]
     IN  \E ok \in BOOLEAN :
           IF ~ok
             THEN RespondFailed(o, op)
             ELSE /\ connTable' = UpdateConnection(connTable, op.id, op.status)
                  /\ ops' = [ops EXCEPT ![o] = IdleOp]
                  /\ lastOp' = [Returned(op) EXCEPT !.outcome = "ok",
                                                    !.notice = "success",
                                                    !.refetch = TRUE]
                  /\ StartFetch(op.uid, FALSE, "accepted", NoDay)
  /\ UNCHANGED <<user, profiles, mounted, refreshing, msgVars, notifVars>>
  /\ UNCHANGED <<screen, meetTable, lastFetch, connections, pendingRequests,
                 sentRequests, meetings, selectedDate, profileList, filterVars>>

\* ---------------------------------------------------------- schedule.tsx
\* .or(organizer_id.eq, attendee_id.eq).gte(startOfDay).lte(endOfDay)
\* .order('scheduled_for', { ascending: true })
SelectMeetings(table, uid, date) ==
  SelectSeq(table, LAMBDA m : /\ (m.organizer_id = uid \/ m.attendee_id = uid)
                              /\ m.scheduled_for = date)

\* catch of fetchMeetings: console.error, Alert.alert; meetings is not set
FailMeetings(f, run) ==
  /\ EndFetch(f, [run EXCEPT !.pc = "done", !.outcome = "failed",
                             !.logged = TRUE, !.alerted = TRUE])
  /\ UNCHANGED meetings

\* useEffect(() => { fetchMeetings(); }, [selectedDate]) at mount
MountSchedule ==
  /\ screen = "schedule"
  /\ ~mounted
  /\ mounted' = TRUE
  /\ StartFetch(user, FALSE, "meetings", selectedDate)
  /\ UNCHANGED <<user, profiles, refreshing, msgVars, notifVars>>
  /\ UNCHANGED <<screen, connTable, meetTable, lastFetch, ops, lastOp,
                 connections, pendingRequests, sentRequests, meetings,
                 selectedDate, profileList, filterVars>>

\* a day of the week strip is pressed: setSelectedDate(day), a new Date
\* object, so the effect runs fetchMeetings for it
SelectDate ==
  /\ screen = "schedule"
  /\ mounted
  /\ IdleFetches # {}
  /\ \E day \in Days :
       /\ selectedDate' = day
       /\ StartFetch(user, FALSE, "meetings", day)
  /\ UNCHANGED <<user, profiles, mounted, refreshing, msgVars, notifVars>>
  /\ UNCHANGED <<screen, connTable, meetTable, lastFetch, ops, lastOp,
                 connections, pendingRequests, sentRequests, meetings,
                 profileList, filterVars>>

\* onRefresh: setRefreshing(true); await fetchMeetings()
RefreshSchedule ==
  /\ screen = "schedule"
  /\ mounted
  /\ IdleFetches # {}
  /\ refreshing' = (user # NoId)
  /\ StartFetch(user, TRUE, "meetings", selectedDate)
  /\ UNCHANGED <<user, profiles, mounted, msgVars, notifVars>>
  /\ UNCHANGED <<screen, connTable, meetTable, lastFetch, ops, lastOp,
                 connections, pendingRequests, sentRequests, meetings,
                 selectedDate, profileList, filterVars>>

\* the select of run f resolves: throw, or setMeetings(data || [])
MeetingsAnswer(f) ==
  /\ fetches[f].pc = "meetings"
  /\ LET run == fetches[f]
     IN  \E ok \in BOOLEAN :
           IF ~ok
             THEN FailMeetings(f, run)
             ELSE /\ meetings' = SelectMeetings(meetTable, run.uid, run.date)
                  /\ EndFetch(f, [run EXCEPT !.pc = "done", !.outcome = "ok"])
  /\ UNCHANGED <<user, profiles, mounted, msgVars, notifVars>>
  /\ UNCHANGED <<screen, connTable, meetTable, ops, lastOp, connections,
                 pendingRequests, sentRequests, selectedDate,
                 profileList, filterVars>>

\* faulty variant of MeetingActions: a third button marks the meeting held
MeetingActionsWithCompleted == {"confirmed", "cancelled", "completed"}

\* the statuses the Confirm and Cancel buttons pass
MeetingActions == {"confirmed", "cancelled"}

\* .update({ status }).eq('id', meetingId)
UpdateMeeting(table, id, status) ==
  [i \in DOMAIN table |->
     IF table[i].id = id THEN [table[i] EXCEPT !.status = status] ELSE table[i]]

\* catch of updateMeetingStatus: console.error, Alert.alert('Error')
MeetingFailed(o, op) ==
  /\ ops' = [ops EXCEPT ![o] = IdleOp]
  /\ lastOp' = [Returned(op) EXCEPT !.outcome = "failed", !.logged = TRUE,
                                    !.notice = "error"]
  /\ UNCHANGED <<meetTable, fetches, loading>>

\* Confirm or Cancel is pressed on a card whose meeting.status is 'pending':
\* updateMeetingStatus(meeting.id, status) issues its update
MeetingPress ==
  /\ screen = "schedule"
  /\ mounted
  /\ IdleOps # {}
  /\ \E i \in DOMAIN meetings, status \in MeetingActions :
       /\ meetings[i].status = "pending"
       /\ ops' = [ops EXCEPT ![NextOp] =
                    [IdleOp EXCEPT !.pc = "await", !.kind = "meeting",
                                   !.uid = user, !.date = selectedDate,
                                   !.id = meetings[i].id, !.status = status,
                                   !.issued = 1]]
  /\ UNCHANGED <<user, profiles, mounted, loading, refreshing, msgVars, notifVars>>
  /\ UNCHANGED <<screen, connTable, meetTable, fetches, lastFetch, lastOp,
                 connections, pendingRequests, sentRequests, meetings,
                 selectedDate, profileList, filterVars>>

\* the update of updateMeetingStatus resolves: the store rejected it, or
\* applied it to the row of that id; then Alert and fetchMeetings()
MeetingAnswer(o) ==
  /\ ops[o].pc = "await"
  /\ ops[o].kind = "meeting"
  /\ IdleFetches # {}
  /\ LET op == ops[o]
     IN  \E ok \in BOOLEAN :
           IF ~ok
             THEN MeetingFailed(o, op)
             ELSE /\ meetTable' = UpdateMeeting(meetTable, op.id, op.status)
                  /\ ops' = [ops EXCEPT ![o] = IdleOp]
                  /\ lastOp' = [Returned(op) EXCEPT !.outcome = "ok",
                                                    !.notice = "success",
                                                    !.refetch = TRUE]
                  /\ StartFetch(op.uid, FALSE, "meetings", op.date)
  /\ UNCHANGED <<user, profiles, mounted, refreshing, msgVars, notifVars>>
  /\ UNCHANGED <<screen, connTable, lastFetch, connections, pendingRequests,
                 sentRequests, meetings, selectedDate, profileList, filterVars>>

\* ------------------------------------------------------------- index.tsx
\* a string is the sequence of its characters
UpperCase ==
  <<"A", "B", "C", "D", "E", "F", "G", "H", "I", "J", "K", "L", "M",
    "N", "O", "P", "Q", "R", "S", "T", "U", "V", "W", "X", "Y", "Z">>
LowerCase ==
  <<"a", "b", "c", "d", "e", "f", "g", "h", "i", "j", "k", "l", "m",
    "n", "o", "p", "q", "r", "s", "t", "u", "v", "w", "x", "y", "z">>

\* String.prototype.toLowerCase
ToLowerCase(s) ==
  [i \in DOMAIN s |->
     IF \E k \in DOMAIN UpperCase : UpperCase[k] = s[i]
       THEN LowerCase[CHOOSE k \in DOMAIN UpperCase : UpperCase[k] = s[i]]
       ELSE s[i]]

\* String.prototype.trim: the white space at both ends is dropped
RECURSIVE Trim(_)
Trim(s) ==
  IF s = << >> THEN s
  ELSE IF Head(s) = " " THEN Trim(Tail(s))
  ELSE IF s[Len(s)] = " " THEN Trim(SubSeq(s, 1, Len(s) - 1))
  ELSE s

\* String.prototype.includes
Includes(s, q) ==
  \E i \in 0..(Len(s) - Len(q)) : SubSeq(s, i + 1, i + Len(q)) = q

\* an optional column that the row does not have
NoText == <<"undefined">>

\* field?.toLowerCase().includes(query): undefined, so falsy, without the field
OptionalIncludes(field, query) ==
  field # NoText /\ Includes(ToLowerCase(field), query)

\* the rows of the profile table (types/database.ts UserProfile): job title,
\* company and industry are optional
UserProfile(id) ==
  CASE id = Me ->
         [id |-> id, first_name |-> <<"A">>, last_name |-> <<"a">>,
          job_title |-> <<"a", "b">>, company |-> <<"B">>,
          industry |-> industries[3]]
    [] id = "a" ->
         [id |-> id, first_name |-> <<"A", "b">>, last_name |-> <<"B">>,
          job_title |-> NoText, company |-> <<"B", " ", "a">>,
          industry |-> industries[3]]
    [] OTHER ->
         [id |-> id, first_name |-> <<"B", "a">>, last_name |-> <<"A">>,
          job_title |-> <<"a">>, company |-> NoText,
          industry |-> NoText]

\* the characters typed into the search box
QueryChars == {"A", " "}

\* the texts one edit away: a character typed at the end, or the last deleted
Edits(text) ==
  {Append(text, c) : c \in IF Len(text) < MaxQuery THEN QueryChars ELSE {}}
    \cup (IF text = << >> THEN {} ELSE {SubSeq(text, 1, Len(text) - 1)})

\* the search predicate of lines 69-75 on one profile
MatchesQuery(p, query) ==
  \/ Includes(ToLowerCase(p.first_name), query)
  \/ Includes(ToLowerCase(p.last_name), query)
  \/ OptionalIncludes(p.job_title, query)
  \/ OptionalIncludes(p.company, query)
  \/ OptionalIncludes(p.industry, query)

\* faulty variant of SearchFilter: the query is trimmed before it is matched
SearchFilterTrimmed(list, text) ==
  IF Trim(text) # << >>
    THEN LET query == ToLowerCase(Trim(text))
         IN  SelectSeq(list, LAMBDA id : MatchesQuery(UserProfile(id), query))
    ELSE list

\* lines 67-76: if (searchQuery.trim()) the list is filtered by the
\* lower-cased query
SearchFilter(list, text) ==
  IF Trim(text) # << >>
    THEN LET query == ToLowerCase(text)
         IN  SelectSeq(list, LAMBDA id : MatchesQuery(UserProfile(id), query))
    ELSE list

\* lines 78-82: if (selectedIndustry !== 'all') the list is filtered by it
IndustryFilter(list, industry) ==
  IF industry # All
    THEN SelectSeq(list, LAMBDA id : UserProfile(id).industry = industry)
    ELSE list

\* filterProfiles, the effect of lines 33-35: what setFilteredProfiles gets
filterProfiles(list, text, industry) ==
  IndustryFilter(SearchFilter(list, text), industry)

\* .from('profiles').select('*').neq('id', user.id).order('updated_at')
SelectProfiles(profs, uid) ==
  SelectSeq(<<Me, "a", "b">>, LAMBDA id : id \in profs /\ id # uid)

\* catch of fetchProfiles: console.error, Alert.alert; profiles is not set
FailProfiles(f, run) ==
  /\ EndFetch(f, [run EXCEPT !.pc = "done", !.outcome = "failed",
                             !.logged = TRUE, !.alerted = TRUE])
  /\ UNCHANGED <<profileList, filteredProfiles>>

\* useEffect(() => { fetchProfiles(); }, [])
MountDiscover ==
  /\ screen = "discover"
  /\ ~mounted
  /\ mounted' = TRUE
  /\ StartFetch(user, FALSE, "profiles", NoDay)
  /\ UNCHANGED <<user, profiles, refreshing, msgVars, notifVars>>
  /\ UNCHANGED <<screen, connTable, meetTable, lastFetch, ops, lastOp,
                 connections, pendingRequests, sentRequests, meetings,
                 selectedDate, profileList, filterVars>>

\* onRefresh: setRefreshing(true); await fetchProfiles()
RefreshDiscover ==
  /\ screen = "discover"
  /\ mounted
  /\ IdleFetches # {}
  /\ refreshing' = (user # NoId)
  /\ StartFetch(user, TRUE, "profiles", NoDay)
  /\ UNCHANGED <<user, profiles, mounted, msgVars, notifVars>>
  /\ UNCHANGED <<screen, connTable, meetTable, lastFetch, ops, lastOp,
                 connections, pendingRequests, sentRequests, meetings,
                 selectedDate, profileList, filterVars>>

\* the select of run f resolves: throw, or setProfiles(data || [])
ProfilesAnswer(f) ==
  /\ fetches[f].pc = "profiles"
  /\ LET run == fetches[f]
     IN  \E ok \in BOOLEAN :
           IF ~ok
             THEN FailProfiles(f, run)
             ELSE /\ profileList' = SelectProfiles(profiles, run.uid)
                  /\ filteredProfiles' =
                       filterProfiles(profileList', searchQuery,
                                      selectedIndustry)
                  /\ EndFetch(f, [run EXCEPT !.pc = "done", !.outcome = "ok"])
  /\ UNCHANGED <<user, profiles, mounted, msgVars, notifVars>>
  /\ UNCHANGED <<screen, connTable, meetTable, ops, lastOp, connections,
                 pendingRequests, sentRequests, meetings, selectedDate,
                 searchQuery, selectedIndustry>>

\* onChangeText={setSearchQuery}: the search box holds the edited text, and
\* the filter effect runs
TypeQuery ==
  /\ screen = "discover"
  /\ mounted
  /\ \E text \in Edits(searchQuery) :
       /\ searchQuery' = text
       /\ filteredProfiles' =
            filterProfiles(profileList, text, selectedIndustry)
  /\ UNCHANGED <<user, profiles, mounted, loading, refreshing, msgVars, notifVars>>
  /\ UNCHANGED <<screen, connTable, meetTable, fetches, lastFetch, ops, lastOp,
                 connections, pendingRequests, sentRequests, meetings,
                 selectedDate, profileList, selectedIndustry>>

\* an industry chip is pressed: setSelectedIndustry(industry), and the filter
\* effect runs
SelectIndustry ==
  /\ screen = "discover"
  /\ mounted
  /\ \E i \in DOMAIN industries :
       /\ industries[i] # selectedIndustry
       /\ selectedIndustry' = industries[i]
       /\ filteredProfiles' =
            filterProfiles(profileList, searchQuery, industries[i])
  /\ UNCHANGED <<user, profiles, mounted, loading, refreshing, msgVars, notifVars>>
  /\ UNCHANGED <<screen, connTable, meetTable, fetches, lastFetch, ops, lastOp,
                 connections, pendingRequests, sentRequests, meetings,
                 selectedDate, profileList, searchQuery>>

\* faulty variant of RequestRow: the two parties are swapped
RequestRowSwapped(uid, targetUserId) ==
  [requester_id |-> targetUserId, requested_id |-> uid, status |-> "pending"]

\* { requester_id: user.id, requested_id: targetUserId, status: 'pending' }
RequestRow(uid, targetUserId) ==
  [requester_id |-> uid, requested_id |-> targetUserId, status |-> "pending"]

\* Connect is pressed on a profile card: sendConnectionRequest(profile.id)
\* returns at once without a user, and otherwise issues its insert
SendRequest ==
  /\ screen = "discover"
  /\ mounted
  /\ IdleOps # {}
  /\ Len(connTable) + Cardinality(OpIds \ IdleOps) < MaxConns
  /\ \E i \in DOMAIN filteredProfiles :
       LET targetUserId == filteredProfiles[i]
           row == RequestRow(user, targetUserId)
           op  == [IdleOp EXCEPT !.kind = "request", !.uid = user,
                                 !.target = targetUserId,
                                 !.row = Connection(0, row.requester_id,
                                                    row.requested_id, row.status)]
       IN  IF user = NoId
             THEN /\ lastOp' = [Returned(op) EXCEPT !.outcome = "skipped"]
                  /\ UNCHANGED ops
             ELSE /\ ops' = [ops EXCEPT ![NextOp] =
                               [op EXCEPT !.pc = "await", !.issued = 1]]
                  /\ UNCHANGED lastOp
  /\ UNCHANGED <<user, profiles, mounted, loading, refreshing, msgVars, notifVars>>
  /\ UNCHANGED <<screen, connTable, meetTable, fetches, lastFetch, connections,
                 pendingRequests, sentRequests, meetings, selectedDate,
                 profileList, filterVars>>

\* catch of sendConnectionRequest: console.error, Alert.alert('Error')
RequestFailed(o, op) ==
  /\ ops' = [ops EXCEPT ![o] = IdleOp]
  /\ lastOp' = [Returned(op) EXCEPT !.outcome = "failed", !.logged = TRUE,
                                    !.notice = "error"]
  /\ UNCHANGED connTable

\* the insert of sendConnectionRequest resolves: the store rejected it, or
\* added the row under a new id; then the Alert, and nothing else
RequestAnswer(o) ==
  /\ ops[o].pc = "await"
  /\ ops[o].kind = "request"
  /\ LET op == ops[o]
     IN  \E ok \in BOOLEAN :
           IF ~ok
             THEN RequestFailed(o, op)
             ELSE /\ connTable' = Append(connTable,
                                         [op.row EXCEPT !.id = Len(connTable) + 1])
                  /\ ops' = [ops EXCEPT ![o] = IdleOp]
                  /\ lastOp' = [Returned(op) EXCEPT !.outcome = "ok",
                                                    !.notice = "success"]
  /\ UNCHANGED <<user, profiles, mounted, loading, refreshing, msgVars, notifVars>>
  /\ UNCHANGED <<screen, meetTable, fetches, lastFetch, connections,
                 pendingRequests, sentRequests, meetings, selectedDate,
                 profileList, filterVars>>

\* ------------------------------------------------------------- the tabs
\* the connections or the schedule tab after construction, its effect not
\* yet run
InitApp ==
  /\ user = Me
  /\ store = << >>
  /\ profiles = {Me} \cup Others
  /\ clock = 1
  /\ mounted = FALSE
  /\ subscribed = FALSE
  /\ notifs = 0
  /\ runs = [r \in RunIds |-> IdleRun]
  /\ conversations = << >>
  /\ loading = FALSE
  /\ refreshing = FALSE
  /\ lastDone = 0
  /\ screen \in {"connections", "schedule"}
  /\ TabsAtRest
  /\ ProviderAtRest("ios")

NextApp ==
  \/ MountConnections
  \/ RefreshConnections
  \/ \E f \in FetchIds : ConnectionsAnswer(f)
  \/ RespondPress
  \/ \E o \in OpIds : RespondAnswer(o)
  \/ MountSchedule
  \/ SelectDate
  \/ RefreshSchedule
  \/ \E f \in FetchIds : MeetingsAnswer(f)
  \/ MeetingPress
  \/ \E o \in OpIds : MeetingAnswer(o)

SpecApp == InitApp /\ [][NextApp]_vars

\* the discover tab after construction
InitDiscover ==
  /\ user = Me
  /\ store = << >>
  /\ profiles \in ProfileTables
  /\ clock = 1
  /\ mounted = FALSE
  /\ subscribed = FALSE
  /\ notifs = 0
  /\ runs = [r \in RunIds |-> IdleRun]
  /\ conversations = << >>
  /\ loading = FALSE
  /\ refreshing = FALSE
  /\ lastDone = 0
  /\ screen = "discover"
  /\ TabsAtRest
  /\ ProviderAtRest("ios")

\* the discover tab in a session that may end while the tab is mounted: the
\* list as fetched, and the requests sent from its cards
NextRequests ==
  \/ SignOut
  \/ MountDiscover
  \/ RefreshDiscover
  \/ \E f \in FetchIds : ProfilesAnswer(f)
  \/ SendRequest
  \/ \E o \in OpIds : RequestAnswer(o)

SpecRequests == InitDiscover /\ [][NextRequests]_vars

\* the discover tab with its search box and its industry chips
NextDiscover ==
  \/ MountDiscover
  \/ RefreshDiscover
  \/ \E f \in FetchIds : ProfilesAnswer(f)
  \/ TypeQuery
  \/ SelectIndustry

SpecDiscover == InitDiscover /\ [][NextDiscover]_vars

\* ------------------------------------------- NotificationContext.tsx
\* the titles, bodies and meeting times (Date.getTime(), in ms) passed in
Titles == {"Meeting", "Request"}
Bodies == {"soon"}
MeetingTimes == {600000, 900000, 3600000}

\* faulty variant of ReminderDate: the reminder fires at the meeting time
ReminderDateAtMeeting(date) == date

\* new Date(date.getTime() - 15 * 60 * 1000)
ReminderDate(date) == date - 15 * 60 * 1000

\* Notifications.scheduleNotificationAsync({ content, trigger })
ScheduleNotification(title, body, trigger) ==
  scheduled' = Append(scheduled,
                      [content |-> [title |-> title, body |-> body,
                                    sound |-> "default"],
                       trigger |-> trigger])

\* scheduleMeetingReminder(title, body, date): returns at once on web
ScheduleMeetingReminder ==
  /\ platform = "web" \/ Len(scheduled) < MaxScheduled
  /\ \E title \in Titles, body \in Bodies, date \in MeetingTimes :
       /\ lastCall' = [fn |-> "scheduleMeetingReminder", title |-> title,
                       body |-> body, date |-> date]
       /\ IF platform = "web"
            THEN UNCHANGED scheduled
            ELSE ScheduleNotification(title, body,
                                      [kind |-> "date",
                                       date |-> ReminderDate(date)])
  /\ UNCHANGED <<user, profiles, mounted, loading, refreshing, msgVars>>
  /\ UNCHANGED <<screen, connTable, meetTable, fetches, lastFetch, ops, lastOp,
                 connections, pendingRequests, sentRequests, meetings,
                 selectedDate, profileList, filterVars, platform>>

\* sendLocalNotification(title, body): returns at once on web
SendLocalNotification ==
  /\ platform = "web" \/ Len(scheduled) < MaxScheduled
  /\ \E title \in Titles, body \in Bodies :
       /\ lastCall' = [fn |-> "sendLocalNotification", title |-> title,
                       body |-> body, date |-> 0]
       /\ IF platform = "web"
            THEN UNCHANGED scheduled
            ELSE ScheduleNotification(title, body, NullTrigger)
  /\ UNCHANGED <<user, profiles, mounted, loading, refreshing, msgVars>>
  /\ UNCHANGED <<screen, connTable, meetTable, fetches, lastFetch, ops, lastOp,
                 connections, pendingRequests, sentRequests, meetings,
                 selectedDate, profileList, filterVars, platform>>

\* the notification context on any platform, before any call
InitNotif ==
  /\ user = Me
  /\ store = << >>
  /\ profiles = {Me} \cup Others
  /\ clock = 1
  /\ mounted = FALSE
  /\ subscribed = FALSE
  /\ notifs = 0
  /\ runs = [r \in RunIds |-> IdleRun]
  /\ conversations = << >>
  /\ loading = FALSE
  /\ refreshing = FALSE
  /\ lastDone = 0
  /\ screen = "messages"
  /\ TabsAtRest
  /\ \E os \in Platforms : ProviderAtRest(os)

NextNotif ==
  \/ ScheduleMeetingReminder
  \/ SendLocalNotification

SpecNotif == InitNotif /\ [][NextNotif]_vars

\* ================================================================= claims
\* what the claims speak of, stated without the aggregation's own operators
StoredRuns  == {r \in RunIds : runs[r].outcome = "ok"}
GroupedRuns == {r \in RunIds : runs[r].pc = "awaitProfiles" \/ runs[r].outcome = "ok"}

\* the fetched message set of a run (a null set has no message)
Fetched(r) == IF runs[r].resp.kind = "data" THEN runs[r].resp.data ELSE << >>

\* the endpoint of a message that is not the current user
Counterparty(message, uid) ==
  CHOOSE e \in {message.sender_id, message.receiver_id} :
    e # uid \/ {message.sender_id, message.receiver_id} = {uid}

Counterparties(r) ==
  {Counterparty(Fetched(r)[i], runs[r].uid) : i \in DOMAIN Fetched(r)}

\* the messages of a run exchanged with counterparty k
Partition(r, k) ==
  {Fetched(r)[i] : i \in {j \in DOMAIN Fetched(r) :
                            Counterparty(Fetched(r)[j], runs[r].uid) = k}}

\* C1: a stored conversation list has exactly one conversation per distinct
\* counterparty id of the fetched messages, and a run over an empty or null
\* message set ends without failure in an empty list.
C1_OneConversationPerCounterparty ==
  \A r \in RunIds :
    /\ r \in StoredRuns =>
         /\ Len(runs[r].result) = Cardinality(Counterparties(r))
         /\ SeqRange(UserIdsOf(runs[r].result)) = Counterparties(r)
    /\ (runs[r].pc = "done" /\ runs[r].resp.kind # "error" /\ Fetched(r) = << >>) =>
         /\ runs[r].outcome = "ok"
         /\ runs[r].result = << >>

\* two fetched messages of one counterparty were merged into one conversation
C1_Witness ==
  \E r \in StoredRuns :
    /\ Len(Fetched(r)) = 2
    /\ Fetched(r)[1].sender_id # Fetched(r)[2].sender_id
    /\ Len(runs[r].result) = 1

\* C2: the lastMessage of every stored conversation is a message of that
\* counterparty's partition and no message of the partition has a greater
\* created_at, in whatever order the messages were fetched.
C2_LastMessageIsLatest ==
  \A r \in StoredRuns :
    \A i \in DOMAIN runs[r].result :
      LET conv == runs[r].result[i]
      IN  /\ conv.lastMessage \in Partition(r, conv.otherUserId)
          /\ \A m \in Partition(r, conv.otherUserId) :
               conv.lastMessage.created_at >= m.created_at

\* the later message came second in the fetched order and replaced the first
C2_Witness ==
  \E r \in StoredRuns :
    /\ Len(Fetched(r)) = 2
    /\ Len(runs[r].result) = 1
    /\ Fetched(r)[1].created_at < Fetched(r)[2].created_at
    /\ runs[r].result[1].lastMessage = Fetched(r)[2]

\* C3: the unreadCount of every stored conversation is the number of messages
\* of its partition received by the current user and not read; messages the
\* current user sent are not counted.
C3_UnreadCount ==
  \A r \in StoredRuns :
    \A i \in DOMAIN runs[r].result :
      LET conv == runs[r].result[i]
      IN  conv.unreadCount =
            Cardinality({m \in Partition(r, conv.otherUserId) :
                           m.receiver_id = runs[r].uid /\ ~m.read})

\* a partition with an unread received message and an unread sent message
C3_Witness ==
  \E r \in StoredRuns :
    /\ Len(Fetched(r)) = 2
    /\ Len(runs[r].result) = 1
    /\ \E i, j \in 1..2 :
         /\ Fetched(r)[i].receiver_id = Me /\ ~Fetched(r)[i].read
         /\ Fetched(r)[j].sender_id = Me /\ ~Fetched(r)[j].read
    /\ runs[r].result[1].unreadCount = 1

NonIncreasing(list) ==
  \A i \in 1..(Len(list) - 1) :
    list[i].lastMessage.created_at >= list[i + 1].lastMessage.created_at

\* C4: the conversation list fetchConversations stores, and so the
\* conversations state, is non-increasing in lastMessage.created_at.
C4_SortedByRecency ==
  /\ NonIncreasing(conversations)
  /\ \A r \in StoredRuns : NonIncreasing(runs[r].result)

\* the sort moved the conversation grouped second in front of the first
C4_Witness ==
  \E r \in StoredRuns :
    /\ Len(runs[r].result) = 2
    /\ UserIdsOf(runs[r].result) # UserIdsOf(runs[r].map)
    /\ conversations = runs[r].result

\* C5: two runs of fetchConversations that got the same messages in the same
\* order and the same profile lookup result stored identical conversation
\* sequences, whatever the conversations state held when each of them ran.
C5_SameSnapshotSameResult ==
  \A r1, r2 \in StoredRuns :
    (runs[r1].resp = runs[r2].resp /\ runs[r1].look = runs[r2].look)
      => runs[r1].result = runs[r2].result

\* two runs over the same non-empty snapshot, the second of which ran when
\* the conversations state already held the first one's result
C5_Witness ==
  \E r1, r2 \in StoredRuns :
    /\ r1 # r2
    /\ runs[r1].resp = runs[r2].resp
    /\ runs[r1].look = runs[r2].look
    /\ Fetched(r1) # << >>
    /\ runs[r1].held = << >>
    /\ runs[r2].held = runs[r1].result
    /\ runs[r1].result = runs[r2].result

\* the ids of every profile lookup a run has issued
LookupKeys(r) ==
  UNION {SeqRange(runs[r].lookups[i]) : i \in DOMAIN runs[r].lookups}

\* the first message of counterparty k in the fetched order of run r
FirstOf(r, k) ==
  Fetched(r)[CHOOSE i \in DOMAIN Fetched(r) :
               /\ Counterparty(Fetched(r)[i], runs[r].uid) = k
               /\ \A j \in 1..(i - 1) :
                    Counterparty(Fetched(r)[j], runs[r].uid) # k]

CarriesProfileOf(message, k) ==
  message.sender_id = k /\ message.sender_profile # NoProfile

\* C6 as claimed: a counterparty id is in the profile lookup if and only if
\* no fetched message of its thread carries its embedded sender profile.
C6_LookupIffNoMessageCarriesProfile ==
  \A r \in GroupedRuns :
    \A k \in Counterparties(r) :
      k \in LookupKeys(r) <=>
        \A m \in Partition(r, k) : ~CarriesProfileOf(m, k)

\* C6 (amended): a counterparty id is in the profile lookup if and only if
\* the first message of its thread in the fetched order does not carry its
\* embedded sender profile (it was sent by the current user, or the embedded
\* profile is absent); the lookup names no other id.
C6_LookupIffFirstMessageLacksProfile ==
  \A r \in GroupedRuns :
    /\ LookupKeys(r) \subseteq Counterparties(r)
    /\ \A k \in Counterparties(r) :
         k \in LookupKeys(r) <=> ~CarriesProfileOf(FirstOf(r, k), k)

\* a looked-up counterparty whose thread does hold a message with its profile
C6_Witness ==
  \E r \in GroupedRuns :
    \E k \in LookupKeys(r) :
      /\ FirstOf(r, k).sender_id = Me
      /\ \E m \in Partition(r, k) : CarriesProfileOf(m, k)

\* C7: a run issues at most one profile lookup, only before it stores its
\* list, keyed by exactly the ids of the conversations that have no profile
\* after the grouping; no lookup when every conversation has one; and no step
\* of a run changes the message table.
C7_LookupState ==
  \A r \in RunIds :
    /\ Len(runs[r].lookups) <= 1
    /\ runs[r].pc = "awaitProfiles" =>
         /\ Len(runs[r].lookups) = 1
         /\ runs[r].outcome = "none"
    /\ r \in GroupedRuns =>
         LookupKeys(r) =
           {runs[r].map[i].otherUserId :
              i \in {j \in DOMAIN runs[r].map :
                       runs[r].map[j].otherUserProfile = NoProfile}}

C7_LookupStep ==
  /\ \A r \in RunIds :
       runs'[r].lookups # runs[r].lookups =>
         runs[r].outcome = "none" /\ runs'[r].outcome = "none"
  /\ runs' # runs => store' = store

C7_AtMostOneLookupNoWrite == []C7_LookupState /\ [][C7_LookupStep]_vars

\* a run stored its list after the one lookup it issued for its conversation
C7_Witness ==
  \E r \in StoredRuns :
    /\ Len(runs[r].lookups) = 1
    /\ LookupKeys(r) = SeqRange(UserIdsOf(runs[r].result))
    /\ conversations = runs[r].result

\* C8 as claimed: when the profile lookup of a run fails, the run fails and
\* the conversations state is left as it was.
C8_LookupFailureFailsRun ==
  [][\A r \in RunIds :
       (/\ runs[r].pc = "awaitProfiles"
        /\ runs'[r].pc = "done"
        /\ runs'[r].look.kind \in {"error", "reject"})
         => /\ runs'[r].outcome = "failed"
            /\ conversations' = conversations]_vars

Malformed(message) == message.sender_id = NoId /\ message.receiver_id = NoId

C10_LastCompletionWins ==
  (lastDone # 0 /\ runs[lastDone].outcome = "ok")
    => conversations = runs[lastDone].result

\* run 1 started first, read the older snapshot, completed after run 2, and
\* its result replaced the newer one
C10_Witness ==
  /\ {1, 2} \subseteq StoredRuns
  /\ lastDone = 1
  /\ Len(Fetched(1)) < Len(Fetched(2))
  /\ runs[1].result # runs[2].result
  /\ conversations = runs[1].result

\* ----------------------------------------------------- claims C11 to C20
InFlight(r) == runs[r].pc \in {"query", "awaitMessages", "awaitProfiles"}

\* the runs a step starts
StartedRuns == {r \in RunIds : runs[r].pc = "idle" /\ runs'[r].pc # "idle"}

\* the step hands one pending notification to the subscription callback
Handled == notifs' = notifs - 1 /\ user' = user

\* the step inserts a row whose receiver is the subscribed user
InsertedForSubscriber ==
  /\ Len(store') = Len(store) + 1
  /\ subscribed
  /\ store'[Len(store')].receiver_id = user

C11_Step ==
  /\ Handled =>
       /\ subscribed /\ user # NoId
       /\ Cardinality(StartedRuns) = 1
       /\ \A r \in RunIds \ StartedRuns : runs'[r] = runs[r]
  /\ \A r \in StartedRuns :
       \/ mounted' # mounted
       \/ runs'[r].refresh
       \/ subscribed /\ Handled
  /\ InsertedForSubscriber => notifs' = notifs + 1
  /\ notifs' < notifs => Handled \/ (subscribed /\ ~subscribed')

\* C11: while the subscription is held for a signed-in user, every insert
\* notification is handed to the callback once and starts exactly one new run
\* of fetchConversations, leaving the runs in flight as they are; a pending
\* notification goes away only by being handled or with the subscription;
\* and a run that neither the mount effect nor onRefresh started was started
\* by a notification handled while subscribed, so none starts after release.
C11_EveryNotificationStartsOneRun == [][C11_Step]_vars

\* the insert's notification started run 2 while the mount's run 1 was still
\* awaiting its select
C11_Witness ==
  /\ Len(store) = 1
  /\ store[1].receiver_id = Me
  /\ notifs = 0
  /\ InFlight(1)
  /\ runs[2].pc = "query" /\ ~runs[2].refresh

\* C12 as claimed: for each screen, at most one run of its fetch is in flight
\* at any time.
C12_AtMostOneFetchInFlight ==
  /\ Cardinality({r \in RunIds : InFlight(r)}) <= 1
  /\ Cardinality({f \in FetchIds : fetches[f].pc # "idle"}) <= 1

\* a query of run r failed: the messages select, or the profiles select
QueryFailed(run) ==
  run.resp.kind = "error" \/ run.look.kind \in {"error", "reject"}

\* the runs of fetchConversations and of a tab's fetch that end in a step
EndedRuns    == {r \in RunIds : runs[r].pc # "done" /\ runs'[r].pc = "done"}
EndedFetches == {f \in FetchIds : fetches[f].pc # "idle" /\ fetches'[f].pc = "idle"}

\* C13 as claimed: when a store query of a screen's fetch fails, what the
\* screen had loaded is left as it was; in fetchConnections all three lists.
C13_FailureKeepsLoaded ==
  [][/\ \A r \in EndedRuns :
          QueryFailed(runs'[r]) => conversations' = conversations
     /\ \A f \in EndedFetches :
          lastFetch'.outcome = "failed" =>
            UNCHANGED <<connections, pendingRequests, sentRequests, meetings,
                        profileList>>]_vars

\* C14 as claimed: every failed store query of a screen's fetch is logged and
\* shown to the user as a failure notice.
C14_FailureLoggedAndShown ==
  /\ \A r \in RunIds :
       (runs[r].pc = "done" /\ QueryFailed(runs[r]))
         => runs[r].logged /\ runs[r].alerted
  /\ lastFetch.outcome = "failed" => lastFetch.logged /\ lastFetch.alerted

Settled == {"accepted", "rejected"}

\* C15 as claimed: once the status of a connection is accepted or rejected, no
\* step of the application changes it again.
C15_SettledStatusIsFinal ==
  [][\A i \in DOMAIN connTable :
       connTable[i].status \in Settled
         => connTable'[i].status = connTable[i].status]_vars

\* the row of the connection table with the given id
ConnectionOf(id) ==
  connTable[CHOOSE i \in DOMAIN connTable : connTable[i].id = id]

C16_State ==
  \A o \in OpIds :
    ops[o].kind = "respond" =>
      /\ \E i \in DOMAIN connTable : connTable[i].id = ops[o].id
      /\ ConnectionOf(ops[o].id).requested_id = Me
      /\ ConnectionOf(ops[o].id).requester_id # Me

C16_Step ==
  \A i \in DOMAIN connTable :
    connTable'[i].status # connTable[i].status =>
      connTable[i].requested_id = Me /\ connTable[i].requester_id # Me

\* C16: every call of handleConnectionResponse is given the id of a connection
\* whose requested_id is the user of the session and whose requester is
\* somebody else, and only the status of such a connection is ever changed:
\* the requester has nothing to change a status with.
C16_OnlyRequestedPartyResponds == []C16_State /\ [][C16_Step]_vars

\* a response to the request of "a" is on its way while the user's own
\* request to "b" is shown in the sent list
C16_Witness ==
  /\ \E o \in OpIds : ops[o].kind = "respond" /\ ops[o].pc = "await"
                      /\ ops[o].id = 1
  /\ Len(sentRequests) = 1
  /\ sentRequests[1].requester_id = Me

C17_State ==
  \A o \in OpIds :
    ops[o].kind = "meeting" => ops[o].status \in {"confirmed", "cancelled"}

C17_Step ==
  \A i \in DOMAIN meetTable :
    meetTable'[i].status # meetTable[i].status =>
      /\ meetTable'[i].status \in {"confirmed", "cancelled"}
      /\ \E o \in OpIds :
           /\ ops[o].kind = "meeting"
           /\ ops[o].pc = "await" /\ ops'[o].pc = "idle"
           /\ ops[o].id = meetTable[i].id
           /\ ops[o].status = meetTable'[i].status

\* C17: updateMeetingStatus is only ever given 'confirmed' or 'cancelled', and
\* every change of a meeting's status is the update of one of its calls, so
\* the status written is never 'completed' or 'pending'.
C17_OnlyConfirmOrCancel == []C17_State /\ [][C17_Step]_vars

\* the pending meeting was confirmed by a call of updateMeetingStatus
C17_Witness ==
  /\ meetTable[1].status = "confirmed"
  /\ lastOp.kind = "meeting"
  /\ lastOp.outcome = "ok"

\* the mutations whose request resolves in a step
ResolvedOps == {o \in OpIds : ops[o].pc = "await" /\ ops'[o].pc = "idle"}

C18_Step ==
  \A o \in ResolvedOps :
    /\ lastOp'.kind = ops[o].kind
    /\ lastOp'.outcome \in {"ok", "failed"}
    /\ UNCHANGED <<connections, pendingRequests, sentRequests, meetings,
                   profileList>>
    /\ \A q \in OpIds \ {o} : ops'[q] = ops[q]
    /\ ops[o].issued = 1
    /\ lastOp'.outcome = "failed" =>
         /\ lastOp'.notice = "error"
         /\ ~lastOp'.refetch
         /\ UNCHANGED <<fetches, connTable, meetTable>>
    /\ (lastOp'.refetch \/ fetches' # fetches) =>
         /\ lastOp'.outcome = "ok"
         /\ lastOp'.notice = "success"
         /\ ops[o].kind = "respond" =>
              \A i \in DOMAIN connTable :
                connTable[i].id = ops[o].id =>
                  connTable'[i].status = ops[o].status
         /\ ops[o].kind = "meeting" =>
              \A i \in DOMAIN meetTable :
                meetTable[i].id = ops[o].id =>
                  meetTable'[i].status = ops[o].status

\* C18: when the store rejects a mutation (connection insert, connection
\* status update, meeting status update) the handler shows the failure notice,
\* sends no second request, starts no fetch and leaves the tables and the
\* screen's lists as they are; a fetch is started by a handler only after the
\* store applied its update, and no handler writes a list itself.
C18_RejectedMutationChangesNothing == [][C18_Step]_vars

\* the response to the request of "a" was rejected by the store: the notice is
\* shown, no run of fetchConnections is in flight, and the table and the
\* pending list are as loaded
C18_Witness ==
  /\ lastOp.kind = "respond"
  /\ lastOp.outcome = "failed"
  /\ lastOp.notice = "error"
  /\ \A f \in FetchIds : fetches[f].pc = "idle"
  /\ connTable = InitialConnections
  /\ Len(pendingRequests) = 1

C19_State ==
  \A o \in OpIds :
    ops[o].kind = "request" =>
      /\ ops[o].uid = Me
      /\ ops[o].issued = 1
      /\ ops[o].row = Connection(0, ops[o].uid, ops[o].target, "pending")

C19_Step ==
  /\ \A o \in ResolvedOps :
       ops[o].kind = "request" =>
         /\ \/ connTable' = connTable
            \/ connTable' = Append(connTable,
                 Connection(Len(connTable) + 1, Me, ops[o].target, "pending"))
         /\ lastOp'.outcome = "ok" => connTable' # connTable
         /\ profileList' = profileList
  /\ \A o \in OpIds :
       (ops[o].pc = "idle" /\ ops'[o].kind = "request") =>
         /\ user # NoId
         /\ UNCHANGED <<connTable, profileList>>
  /\ (lastOp' # lastOp /\ lastOp'.outcome = "skipped") =>
       /\ user = NoId
       /\ UNCHANGED <<ops, connTable, profileList>>
  /\ (screen = "discover" /\ connTable' # connTable) =>
       \E o \in ResolvedOps : ops[o].kind = "request"

\* C19: every call of sendConnectionRequest made with a signed-in user sends
\* one insert, of the row { requester_id: the user, requested_id: the target,
\* status: 'pending' }, and the table gains that one row when the store
\* accepts it; a call made with no user sends nothing; and neither the call
\* nor its resolution changes the profile list.
C19_OneInsertPerRequest == []C19_State /\ [][C19_Step]_vars

\* the request to "a" was accepted by the store: one new row, the list as
\* loaded
C19_Witness ==
  /\ lastOp.kind = "request"
  /\ lastOp.outcome = "ok"
  /\ Len(connTable) = Len(InitialConnections) + 1
  /\ connTable[Len(connTable)] =
       Connection(Len(connTable), Me, "a", "pending")
  /\ "a" \in SeqRange(profileList)

\* the runs whose profile lookup resolved to rows or to no data
LookedUpRuns ==
  {r \in RunIds : runs[r].pc = "done" /\ runs[r].look.kind \in {"data", "error"}}

\* the entry of counterparty k in a list of conversations
EntriesOf(list, k) == {i \in DOMAIN list : list[i].otherUserId = k}

\* C20: a run whose profile lookup returned rows or no data stores its list;
\* every conversation of the grouping is in the list once, with the
\* lastMessage and unreadCount of the grouping, and with an absent profile
\* when the lookup was asked for it and did not return it.
C20_MissingProfileKeepsConversation ==
  \A r \in LookedUpRuns :
    /\ runs[r].outcome = "ok"
    /\ Len(runs[r].result) = Len(runs[r].map)
    /\ \A i \in DOMAIN runs[r].map :
         LET conv == runs[r].map[i]
         IN  \E j \in DOMAIN runs[r].result :
               /\ EntriesOf(runs[r].result, conv.otherUserId) = {j}
               /\ runs[r].result[j].lastMessage = conv.lastMessage
               /\ runs[r].result[j].unreadCount = conv.unreadCount
               /\ (conv.otherUserId \in LookupKeys(r) \ runs[r].look.found)
                    => runs[r].result[j].otherUserProfile = NoProfile

\* the profile of "b" is not in the table: the lookup returned no row for it,
\* and the conversation with "b" is shown with its unread message
C20_Witness ==
  \E r \in LookedUpRuns :
    /\ runs[r].look.kind = "data"
    /\ runs[r].look.found = {}
    /\ \E j \in DOMAIN conversations :
         /\ conversations[j].otherUserId = "b"
         /\ conversations[j].otherUserProfile = NoProfile
         /\ conversations[j].unreadCount = 1
         /\ conversations[j].lastMessage.sender_id = "b"

\* ================================================== claims C21 to C30
\* the search box holds nothing but white space
BlankQuery == \A i \in DOMAIN searchQuery : searchQuery[i] = " "

\* the profile passes the chip and the search box as they now stand
C21_Passes(id) ==
  LET p == UserProfile(id)
      fields == {p.first_name, p.last_name, p.job_title, p.company,
                 p.industry} \ {NoText}
  IN  /\ selectedIndustry # All => p.industry = selectedIndustry
      /\ ~BlankQuery =>
           \E field \in fields :
             Includes(ToLowerCase(field), ToLowerCase(searchQuery))

\* C21: after the filter effect has run, filteredProfiles is the
\* order-preserving subsequence of the fetched profiles whose industry is the
\* selected one (unless 'all' is selected) and, when the query is not blank,
\* one of whose first name, last name, job title, company and industry
\* contains the lower-cased query; and the fetched profiles never include the
\* user's own profile.
C21_FilteredIsMatchingSubsequence ==
  /\ filteredProfiles = SelectSeq(profileList, C21_Passes)
  /\ user \notin SeqRange(profileList)

\* both profiles are fetched, the query " A" and the Finance chip leave "a":
\* its company holds " a", while "b" holds "a" but not " a" and no industry
C21_Witness ==
  /\ profileList = <<"a", "b">>
  /\ searchQuery = <<" ", "A">>
  /\ selectedIndustry = industries[3]
  /\ filteredProfiles = <<"a">>

\* a call of the notification context is made in this step
NotificationCall == lastCall' # lastCall \/ scheduled' # scheduled

\* what the call of this step is to have scheduled off the web
C22_Expected ==
  [content |-> [title |-> lastCall'.title, body |-> lastCall'.body,
                sound |-> "default"],
   trigger |-> IF lastCall'.fn = "scheduleMeetingReminder"
                 THEN [kind |-> "date", date |-> lastCall'.date - 900000]
                 ELSE [kind |-> "null", date |-> 0]]

C22_Step ==
  NotificationCall =>
    IF platform = "web"
      THEN scheduled' = scheduled
      ELSE scheduled' = Append(scheduled, C22_Expected)

\* C22: off the web, scheduleMeetingReminder schedules exactly one
\* notification, triggered 15 minutes (900000 ms) before the given meeting
\* time, and sendLocalNotification exactly one immediate notification (trigger
\* null); on web neither schedules anything.
C22_OneNotificationExceptOnWeb ==
  /\ [](platform = "web" => scheduled = << >>)
  /\ [][C22_Step]_vars

\* on a phone a reminder for the meeting at 3600000 ms and then a local
\* notification were scheduled
C22_Witness ==
  /\ platform = "android"
  /\ Len(scheduled) = 2
  /\ scheduled[1].trigger = [kind |-> "date", date |-> 2700000]
  /\ scheduled[2].trigger = NullTrigger
  /\ lastCall.fn = "sendLocalNotification"

\* the place in the fetched order of the first of the messages of counterparty
\* k that have the greatest created_at of k's partition
FirstLatest(r, k) ==
  CHOOSE i \in DOMAIN Fetched(r) :
    /\ Fetched(r)[i] \in Partition(r, k)
    /\ \A m \in Partition(r, k) : Fetched(r)[i].created_at >= m.created_at
    /\ \A j \in 1..(i - 1) :
         Fetched(r)[j] \in Partition(r, k) =>
           Fetched(r)[j].created_at < Fetched(r)[i].created_at

\* C23: among the messages of one counterparty that share the greatest
\* created_at, lastMessage is the one that comes first in the fetched order: a
\* later message replaces it only when its created_at is strictly greater.
C23_FirstOfLatestIsKept ==
  \A r \in GroupedRuns :
    \A i \in DOMAIN runs[r].map :
      runs[r].map[i].lastMessage =
        Fetched(r)[FirstLatest(r, runs[r].map[i].otherUserId)]

\* two messages of one counterparty with the same created_at: the first stays
C23_Witness ==
  \E r \in GroupedRuns :
    /\ Len(Fetched(r)) = 2
    /\ Len(runs[r].map) = 1
    /\ Fetched(r)[1].created_at = Fetched(r)[2].created_at
    /\ Fetched(r)[1] # Fetched(r)[2]
    /\ runs[r].map[1].lastMessage = Fetched(r)[1]

\* C24: every conversation the grouping step builds, and every conversation of
\* the list that is sorted and stored, has a lastMessage, which is a message
\* of its own counterparty's partition; so no conversation handed to the sort
\* comparator takes its missing-lastMessage branch.
C24_LastMessageDefined ==
  \A r \in GroupedRuns :
    \A list \in {runs[r].map, runs[r].result} :
      \A i \in DOMAIN list :
        /\ list[i].lastMessage # NoMessage
        /\ list[i].lastMessage \in Partition(r, list[i].otherUserId)

\* two conversations were grouped, sorted and stored, each with a message of
\* its own counterparty
C24_Witness ==
  \E r \in StoredRuns :
    /\ Len(runs[r].result) = 2
    /\ runs[r].result[1].lastMessage \in Partition(r, "a")
    /\ runs[r].result[2].lastMessage \in Partition(r, "b")

\* C25 as claimed: on the messages screen loading is true exactly when a run
\* of fetchConversations is in flight, so with two overlapping runs it stays
\* true until the last of them has finished.
C25_LoadingIffFetchInFlight ==
  loading <=> \E r \in RunIds : InFlight(r)

\* the runs that write the conversations state in a step
StoringRuns == {r \in EndedRuns : runs'[r].outcome = "ok"}

\* C26 as claimed: the conversations state only holds conversations computed
\* for the signed-in user: a run of fetchConversations writes its result only
\* while the user it was started for is signed in and the subscription effect
\* of that user has not been cleaned up.
C26_OnlyCurrentUsersRunWrites ==
  /\ [](conversations # << >> => user # NoId)
  /\ [][\A r \in StoringRuns : runs[r].uid = user /\ subscribed]_vars

\* every fetch that was started has completed, with a data set and without
\* a failure, and the channel holds no notification
AllFetchesSucceeded ==
  /\ mounted
  /\ user # NoId
  /\ notifs = 0
  /\ \A r \in RunIds :
       runs[r].pc # "idle" =>
         /\ runs[r].outcome = "ok"
         /\ runs[r].resp.kind = "data"

\* the message is shown: its counterparty has a conversation whose
\* lastMessage is that message or a later one
Reflected(message) ==
  \E i \in DOMAIN conversations :
    /\ conversations[i].otherUserId = message.sender_id
    /\ conversations[i].lastMessage.created_at >= message.created_at

\* C27 as claimed: once all fetches have succeeded and completed, every
\* message the store holds for the current user is reflected in the
\* conversations state, also when overlapping fetches completed out of order.
C27_InsertedMessageIsReflected ==
  AllFetchesSucceeded =>
    \A i \in DOMAIN store :
      store[i].receiver_id = user => Reflected(store[i])

\* no run of the tab's fetch is in flight, and the run that ended last set
\* its data
FetchesSettled ==
  /\ mounted
  /\ \A f \in FetchIds : fetches[f].pc = "idle"
  /\ lastFetch.outcome = "ok"

\* C28 as claimed: on the schedule screen, once no run of fetchMeetings is in
\* flight and the last run succeeded, the meetings state holds meetings of the
\* selected date only: the result fetched for a date selected before never
\* ends up displayed under the date selected after it.
C28_MeetingsOfSelectedDate ==
  (screen = "schedule" /\ FetchesSettled) =>
    \A i \in DOMAIN meetings : meetings[i].scheduled_for = selectedDate

\* C29 as claimed: the store's status of a meeting changes only when it is
\* still 'pending': a cancelled meeting never becomes confirmed, nor a
\* confirmed one cancelled, through an action taken from a stale list.
C29_OnlyPendingMeetingChanges ==
  [][\A i \in DOMAIN meetTable :
       meetTable'[i].status # meetTable[i].status =>
         meetTable[i].status = "pending"]_vars

\* the ids of a list of connections
IdsOf(list) == {list[i].id : i \in DOMAIN list}

\* the three lists, as the step leaves them, share no connection id
C30_Disjoint ==
  /\ IdsOf(connections') \cap IdsOf(pendingRequests') = {}
  /\ IdsOf(connections') \cap IdsOf(sentRequests') = {}
  /\ IdsOf(pendingRequests') \cap IdsOf(sentRequests') = {}

\* every accepted or pending connection of the user the run was started for
\* is in one of the lists the step leaves
C30_Covered(uid) ==
  \A i \in DOMAIN connTable :
    (/\ uid \in {connTable[i].requester_id, connTable[i].requested_id}
     /\ connTable[i].status \in {"accepted", "pending"}) =>
      connTable[i].id \in IdsOf(connections') \cup IdsOf(pendingRequests')
                            \cup IdsOf(sentRequests')

C30_Step ==
  /\ <<connections, pendingRequests, sentRequests>>' #
       <<connections, pendingRequests, sentRequests>> =>
         \E f \in EndedFetches : lastFetch'.outcome = "ok"
  /\ \A f \in EndedFetches :
       (screen = "connections" /\ lastFetch'.outcome = "ok") =>
         C30_Disjoint /\ C30_Covered(fetches[f].uid)

\* C30 as claimed: the three lists of the connections screen are written only
\* together, by a run of fetchConnections that got its three answers, and as
\* written they are pairwise disjoint by connection id and hold every
\* accepted or pending connection of the user, also when a connection's
\* status changed in the store between the run's queries.
C30_ListsCoverConnections == [][C30_Step]_vars


====
